---- MODULE Spec2Model ----
(***************************************************************************)
(* A model of recursive-file-loader: Loader::get_text_for_path and the    *)
(* resolution stack (loader.rs), the directive regex (loader.rs),         *)
(* Include::replace and escape_backslashes (includes.rs), CanonicalPath   *)
(* (canonical_path.rs) and get_dependency_path (dependency_path.rs).      *)
(*                                                                         *)
(* Text and paths are sequences of one-character strings.  Offsets and    *)
(* ranges are the 0-based half-open byte ranges of the Rust code; the     *)
(* alphabet is ASCII, so bytes and characters coincide.                   *)
(***************************************************************************)
EXTENDS Integers, Sequences, FiniteSets, TLC

VARIABLES
    fs,                 \* the file tree: the content of every regular file
    origin,             \* the path handed to load_file_recursively
    pc,                 \* "idle", "call", "loop", "return" or "done"
    arg,                \* pc = "call": the path get_text_for_path is called with
    ret,                \* pc = "return": the Result being returned; "done": the final one
    resolution_stack,   \* Loader.resolution_stack: Vec<CanonicalPath>
    frames,             \* activations of get_text_for_path, outermost first:
                        \*   path, content and includes are its locals; raw is
                        \*   the text as read and produced what each producer
                        \*   call returned so far (None for an escaped include)
    steps               \* the number of steps taken so far

vars == <<fs, origin, pc, arg, ret, resolution_stack, frames, steps>>

----------------------------------------------------------------------------
(* Characters *)

BSL == "\\"
QUOTE == "\""
NL == "\n"
TAB == "\t"
SP == " "
SLASH == "/"

None == <<>>
Some(x) == <<x>>

Range(s, e) == [start |-> s, end |-> e]
RangeLen(r) == IF r.end > r.start THEN r.end - r.start ELSE 0

\* String::replace_range(s..e, r)
ReplaceRange(t, s, e, r) == SubSeq(t, 1, s) \o r \o SubSeq(t, e + 1, Len(t))

RECURSIVE Repeat(_, _)
Repeat(c, n) == IF n <= 0 THEN <<>> ELSE <<c>> \o Repeat(c, n - 1)

ReverseKeepsOrder(s) == s

RECURSIVE Reverse(_)
Reverse(s) == IF s = <<>> THEN <<>> ELSE Reverse(Tail(s)) \o <<Head(s)>>

\* position (1-based) of the first c in t at or after i; 0 when there is none
RECURSIVE IndexFrom(_, _, _)
IndexFrom(t, c, i) ==
    IF i > Len(t) THEN 0
    ELSE IF t[i] = c THEN i
    ELSE IndexFrom(t, c, i + 1)

HasPrefix(t, i, p) ==
    /\ i >= 1
    /\ i + Len(p) - 1 <= Len(t)
    /\ SubSeq(t, i, i + Len(p) - 1) = p

----------------------------------------------------------------------------
(* str::lines and join("\n") as used by Include::replace.  The alphabet   *)
(* holds no carriage return, so the "\r\n" case of lines() does not arise.*)

RECURSIVE Lines(_)
Lines(t) ==
    IF t = <<>> THEN <<>>
    ELSE LET k == IndexFrom(t, NL, 1) IN
         IF k = 0 THEN <<t>>
         ELSE <<SubSeq(t, 1, k - 1)>> \o Lines(SubSeq(t, k + 1, Len(t)))

RECURSIVE JoinNL(_)
JoinNL(ls) ==
    IF ls = <<>> THEN <<>>
    ELSE IF Len(ls) = 1 THEN ls[1]
    ELSE ls[1] \o <<NL>> \o JoinNL(Tail(ls))

----------------------------------------------------------------------------
\* The directive regex of Loader::find_includes, multi-line mode, in order:
\*   group indentation (optional): line start, then a greedy whitespace run
\*   group backslashes: a greedy run of backslashes
\*   group expr: DOLLAR LBRACE include, optional group indent "_indent",
\*     LPAREN QUOTE, group path (a greedy run of non-quote characters),
\*     QUOTE RPAREN RBRACE

IsWhitespace(c) == c \in {SP, TAB, NL}

\* multi-line anchor: at the start of the text or right after a newline
LineStart(t, i) == i = 1 \/ (i - 1 <= Len(t) /\ t[i - 1] = NL)

\* greedy whitespace run: the length of the whitespace run starting at position i
RECURSIVE WsRun(_, _)
WsRun(t, i) ==
    IF i <= Len(t) /\ IsWhitespace(t[i]) THEN 1 + WsRun(t, i + 1) ELSE 0

\* greedy backslash run: the length of the backslash run starting at position i
RECURSIVE BsRun(_, _)
BsRun(t, i) ==
    IF i <= Len(t) /\ t[i] = BSL THEN 1 + BsRun(t, i + 1) ELSE 0

ExprHead == <<"$", "{", "i", "n", "c", "l", "u", "d", "e">>
ExprIndent == <<"_", "i", "n", "d", "e", "n", "t">>
ExprOpen == <<"(", QUOTE>>
ExprClose == <<QUOTE, ")", "}">>

NoMatch == [ok |-> FALSE]

\* the group <expr> at position i (1-based); stop is the position after it
ExprAt(t, i) ==
    IF ~HasPrefix(t, i, ExprHead) THEN NoMatch
    ELSE LET j == i + Len(ExprHead)
             ind == HasPrefix(t, j, ExprIndent)
             k == IF ind THEN j + Len(ExprIndent) ELSE j
         IN  IF ~HasPrefix(t, k, ExprOpen) THEN NoMatch
             ELSE LET p == k + Len(ExprOpen)
                      q == IndexFrom(t, QUOTE, p)
                  IN  IF q = 0 \/ ~HasPrefix(t, q, ExprClose) THEN NoMatch
                      ELSE [ok |-> TRUE,
                            indent |-> ind,
                            path |-> SubSeq(t, p, q - 1),
                            from |-> i,
                            stop |-> q + Len(ExprClose)]

\* one match of the whole regex anchored at position s.  The optional group
\* indentation is tried first (it needs a line start); both runs are greedy
\* and only their longest run can be followed by the DOLLAR of expr.
MatchAt(t, s) ==
    LET w == WsRun(t, s)
        b1 == BsRun(t, s + w)
        e1 == ExprAt(t, s + w + b1)
        b2 == BsRun(t, s)
        e2 == ExprAt(t, s + b2)
    IN  IF LineStart(t, s) /\ e1.ok
        THEN [ok |-> TRUE,
              group1 |-> Some(SubSeq(t, s, s + w - 1)),
              backslashes |-> Range(s + w - 1, s + w + b1 - 1),
              expr |-> Range(e1.from - 1, e1.stop - 1),
              indent |-> e1.indent,
              path |-> e1.path,
              stop |-> e1.stop]
        ELSE IF e2.ok
        THEN [ok |-> TRUE,
              group1 |-> None,
              backslashes |-> Range(s - 1, s + b2 - 1),
              expr |-> Range(e2.from - 1, e2.stop - 1),
              indent |-> e2.indent,
              path |-> e2.path,
              stop |-> e2.stop]
        ELSE NoMatch

\* Regex::captures_iter: leftmost matches, left to right, not overlapping
RECURSIVE CapturesIter(_, _)
CapturesIter(t, s) ==
    IF s > Len(t) THEN <<>>
    ELSE LET m == MatchAt(t, s) IN
         IF m.ok THEN <<m>> \o CapturesIter(t, m.stop)
         ELSE CapturesIter(t, s + 1)

----------------------------------------------------------------------------
(* Paths.  A PathBuf is the sequence of its characters.                   *)

IsAbsolute(p) == Len(p) > 0 /\ p[1] = SLASH

\* PathBuf::join
Join(base, p) ==
    IF IsAbsolute(p) THEN p
    ELSE IF base = <<>> \/ base[Len(base)] = SLASH THEN base \o p
    ELSE base \o <<SLASH>> \o p

\* the components of a path: the pieces between slashes, empty ones included
RECURSIVE Split(_)
Split(p) ==
    LET k == IndexFrom(p, SLASH, 1) IN
    IF k = 0 THEN <<p>>
    ELSE <<SubSeq(p, 1, k - 1)>> \o Split(SubSeq(p, k + 1, Len(p)))

RECURSIVE LastIndexOf(_, _, _)
LastIndexOf(t, c, i) ==
    IF i < 1 THEN 0
    ELSE IF t[i] = c THEN i
    ELSE LastIndexOf(t, c, i - 1)

\* Path::parent of a canonical (absolute, normalised) path other than "/"
Parent(p) ==
    LET k == LastIndexOf(p, SLASH, Len(p)) IN
    IF k <= 1 THEN <<SLASH>> ELSE SubSeq(p, 1, k - 1)

----------------------------------------------------------------------------
(* The file tree.  Nodes are named by their canonical component lists.    *)
(*   /        directory (also the working directory)                      *)
(*   /a  /b   regular files                                               *)
(*   /l       symbolic link to /a                                         *)
(*   /s       directory                                                   *)
(*   /s/c     regular file                                                *)

Dirs == {<<>>, <<"s">>}
Files == {<<"a">>, <<"b">>, <<"s", "c">>}
Links == (<<"l">> :> <<"a">>)
Cwd == <<>>

NodeType(n) ==
    IF n \in Dirs THEN "dir"
    ELSE IF n \in Files THEN "file"
    ELSE IF n \in DOMAIN Links THEN "link"
    ELSE "none"

\* the canonical path of a node, as characters
RECURSIVE ToPath(_)
ToPath(n) ==
    IF n = <<>> THEN <<SLASH>>
    ELSE IF Len(n) = 1 THEN <<SLASH, n[1]>>
    ELSE ToPath(SubSeq(n, 1, Len(n) - 1)) \o <<SLASH, n[Len(n)]>>

\* the node a canonical path names
ToNode(p) == SelectSeq([i \in 1..Len(Split(p)) |-> LET c == Split(p)[i] IN
                            IF Len(c) = 1 THEN c[1] ELSE ""],
                       LAMBDA x : x # "")

\* std::fs::canonicalize: follow the components of a path from cur
RECURSIVE Walk(_, _)
Walk(cur, comps) ==
    IF comps = <<>> THEN [ok |-> TRUE, node |-> cur, kind |-> "Ok"]
    ELSE LET h == Head(comps) IN
         IF NodeType(cur) = "file"
         THEN [ok |-> FALSE, node |-> <<>>, kind |-> "NotADirectory"]
         ELSE IF h = <<>> \/ h = <<".">> THEN Walk(cur, Tail(comps))
         ELSE IF h = <<".", ".">>
         THEN Walk(SubSeq(cur, 1, Len(cur) - 1), Tail(comps))
         ELSE IF Len(h) # 1 \/ NodeType(cur \o <<h[1]>>) = "none"
         THEN [ok |-> FALSE, node |-> <<>>, kind |-> "NotFound"]
         ELSE IF NodeType(cur \o <<h[1]>>) = "link"
         THEN Walk(Links[cur \o <<h[1]>>], Tail(comps))
         ELSE Walk(cur \o <<h[1]>>, Tail(comps))

Canonicalize(p) ==
    IF p = <<>> THEN [ok |-> FALSE, node |-> <<>>, kind |-> "NotFound"]
    ELSE Walk(IF IsAbsolute(p) THEN <<>> ELSE Cwd, Split(p))

\* Path::is_dir
IsDir(p) == LET c == Canonicalize(p) IN c.ok /\ NodeType(c.node) = "dir"

----------------------------------------------------------------------------
(* Errors and results (lib.rs) *)

NoError == [kind |-> "None", p1 |-> <<>>, p2 |-> <<>>]
FileNotFound(p) == [kind |-> "FileNotFound", p1 |-> p, p2 |-> <<>>]
CyclicDependency(a, b) == [kind |-> "CyclicDependency", p1 |-> a, p2 |-> b]
IOError == [kind |-> "IOError", p1 |-> <<>>, p2 |-> <<>>]

NoResult == [kind |-> "none", text |-> <<>>, err |-> NoError]
Ok(t) == [kind |-> "ok", text |-> t, err |-> NoError]
Err(e) == [kind |-> "err", text |-> <<>>, err |-> e]

----------------------------------------------------------------------------
(* CanonicalPath (canonical_path.rs) *)

CanonicalPathNewAbsolute(source) ==
    LET c == Canonicalize(source) IN
    IF c.ok THEN [ok |-> TRUE, err |-> NoError,
                  path |-> [source |-> source, canonical |-> ToPath(c.node)]]
    ELSE [ok |-> FALSE,
          err |-> IF c.kind = "NotFound"
                  THEN FileNotFound(Join(ToPath(Cwd), source)) ELSE IOError,
          path |-> [source |-> source, canonical |-> <<>>]]

\* CanonicalPath::new
CanonicalPathNew(source) ==
    LET c == Canonicalize(source) IN
    IF c.ok THEN [ok |-> TRUE, err |-> NoError,
                  path |-> [source |-> source, canonical |-> ToPath(c.node)]]
    ELSE [ok |-> FALSE,
          err |-> IF c.kind = "NotFound" THEN FileNotFound(source) ELSE IOError,
          path |-> [source |-> source, canonical |-> <<>>]]

PathEqSource(x, y) == x.source = y.source

\* impl PartialEq for CanonicalPath
PathEq(x, y) == x.canonical = y.canonical

ContainsLast(stack, path) == stack # <<>> /\ PathEq(stack[Len(stack)], path)

ContainsFirst(stack, path) == stack # <<>> /\ PathEq(stack[1], path)

\* Vec::contains
Contains(stack, path) == \E i \in 1..Len(stack) : PathEq(stack[i], path)

----------------------------------------------------------------------------
(* get_dependency_path (dependency_path.rs) *)

GetDependencyPath(origin_path, path) ==
    IF IsAbsolute(path) THEN path
    ELSE IF IsDir(origin_path) THEN Join(origin_path, path)
    ELSE Join(Parent(origin_path), path)

----------------------------------------------------------------------------
(* Include (includes.rs) *)

\* Include::new
IncludeNew(range, path, backslashes, indentation) ==
    [path |-> path, backslashes |-> backslashes, range |-> range,
     indentation |-> indentation]

\* Include::indentation: the captured indentation unless it is empty
Indentation(inc) ==
    IF inc.indentation # None /\ inc.indentation[1] # <<>>
    THEN inc.indentation ELSE None

IsEscapedWhenSingle(inc) == RangeLen(inc.backslashes) = 1

\* is_escaped in Include::replace
IsEscaped(inc) == RangeLen(inc.backslashes) % 2 = 1

IndentTextEveryLine(inc, text) ==
    IF Indentation(inc) = None THEN text
    ELSE LET ls == Lines(text) IN
         JoinNL([i \in 1..Len(ls) |-> Indentation(inc)[1] \o ls[i]])

\* the match on self.indentation() in Include::replace
IndentText(inc, text) ==
    IF Indentation(inc) = None THEN text
    ELSE LET ls == Lines(text) IN
         JoinNL([i \in 1..Len(ls) |->
                    IF i = 1 THEN ls[i] ELSE Indentation(inc)[1] \o ls[i]])

EndIndexDropLast(text) == IF text = <<>> THEN 0 ELSE Len(text) - 1

RECURSIVE EndIndexTrimAll(_)
EndIndexTrimAll(text) ==
    IF text # <<>> /\ text[Len(text)] = NL
    THEN EndIndexTrimAll(SubSeq(text, 1, Len(text) - 1))
    ELSE Len(text)

\* end_index in Include::replace
EndIndex(text) ==
    IF text # <<>> /\ text[Len(text)] = NL THEN Len(text) - 1 ELSE Len(text)

EscapeBackslashesFromStart(target, backslashes) ==
    IF RangeLen(backslashes) = 0 THEN target
    ELSE ReplaceRange(target, backslashes.start,
                      backslashes.start + RangeLen(backslashes) \div 2, <<>>)

EscapeBackslashesAll(target, backslashes) ==
    IF RangeLen(backslashes) = 0 THEN target
    ELSE ReplaceRange(target, backslashes.start, backslashes.end, <<>>)

\* escape_backslashes
EscapeBackslashes(target, backslashes) ==
    IF RangeLen(backslashes) = 0 THEN target
    ELSE LET num_backslaches_to_remove == RangeLen(backslashes) \div 2
             new_end == backslashes.end - num_backslaches_to_remove
         IN  ReplaceRange(target, backslashes.start, new_end, <<>>)

\* Include::replace for an active directive whose producer returned Ok(text)
ReplaceActive(inc, target, text) ==
    LET indented == IndentText(inc, text)
        spliced == ReplaceRange(target, inc.range.start, inc.range.end,
                                SubSeq(indented, 1, EndIndex(indented)))
    IN  EscapeBackslashes(spliced, inc.backslashes)

\* Include::replace for an escaped directive: the producer is not called
ReplaceEscaped(inc, target) == EscapeBackslashes(target, inc.backslashes)

\* the closure mapped over the captures in Loader::find_includes
CaptureToInclude(source_path, capture) ==
    LET indentation == IF capture.group1 = None THEN <<>> ELSE capture.group1[1]
    IN  IncludeNew(capture.expr,
                   GetDependencyPath(source_path, capture.path),
                   capture.backslashes,
                   IF capture.indent THEN Some(indentation) ELSE None)

FindIncludesForward(source_path, text) ==
    LET captures == CapturesIter(text, 1)
    IN  [i \in 1..Len(captures) |-> CaptureToInclude(source_path, captures[i])]

\* Loader::find_includes: the includes of a text, rightmost first
FindIncludes(source_path, text) ==
    LET reversed == Reverse(CapturesIter(text, 1))
    IN  [i \in 1..Len(reversed) |-> CaptureToInclude(source_path, reversed[i])]

----------------------------------------------------------------------------
(* The files the model is run on *)

MaxBackslashes == 3
MaxBlankLines == 1
\* the most directives in one file
MaxDirectives == 2

Inc(p) == ExprHead \o ExprOpen \o p \o ExprClose
IncIndent(p) == ExprHead \o ExprIndent \o ExprOpen \o p \o ExprClose

\* contents of /a
ContentsA ==
    { <<"x">>, <<"x", NL>> }
    \cup { <<"h", SP>> \o Repeat(BSL, n) \o Inc(<<"b">>) \o <<"!">> :
             n \in 0..MaxBackslashes }
    \cup { <<"h">> \o Repeat(NL, k + 1) \o <<SP, SP>> \o IncIndent(<<"b">>)
             \o <<NL, "t">> : k \in 0..MaxBlankLines }
    \cup { <<"h", NL, SP>> \o Inc(<<"s", SLASH, "c">>),
           Inc(<<"b">>) \o <<SP>> \o Inc(<<"s", SLASH, "c">>),
           Inc(<<"b">>) \o Inc(<<"b">>),
           Inc(<<"z">>) \o <<SP>> \o Inc(<<"s">>),
           Inc(<<"b">>) \o <<SP>> \o Inc(<<"z">>),
           <<BSL>> \o Inc(<<"z">>) \o <<SP>> \o Inc(<<"b">>),
           Inc(<<"a">>),
           Inc(<<"l">>),
           <<"h", SP>> \o Inc(<<"s", SLASH, ".", ".", SLASH, "a">>) }

\* contents of /b
ContentsB ==
    { <<"w">>,
      <<"p", NL, "q", NL>>,
      <<"p", NL, NL>>,
      <<"1", NL, TAB>> \o Inc(<<"s", SLASH, "c">>),
      Inc(<<"a">>),
      <<BSL>> \o Inc(<<"a">>) \o <<NL>>,
      <<"w", SP>> \o Inc(<<"z">>),
      Inc(<<".", SLASH, "l">>) }

\* contents of /s/c
ContentsC ==
    { <<"2", NL, "2">>,
      <<>>,
      Inc(<<".", ".", SLASH, "a">>),
      <<"e", SP>> \o Inc(<<".", ".", SLASH, "b">>) \o <<NL>>,
      <<BSL, BSL, BSL>> \o IncIndent(<<SLASH, "a">>),
      Inc(<<"c">>),
      Inc(<<".", ".">>),
      Inc(<<".", ".", SLASH, "z">>) }

FileSystems ==
    { (<<"a">> :> ca) @@ (<<"b">> :> cb) @@ (<<"s", "c">> :> cc) :
        ca \in ContentsA, cb \in ContentsB, cc \in ContentsC }

\* the paths load_file_recursively is called with
Origins ==
    { <<"a">>, <<"l">>, <<"s", SLASH, "c">>, <<"z">>, <<"s">> }

----------------------------------------------------------------------------
(* Loader (loader.rs) *)

Last(s) == s[Len(s)]
Pop(s) == SubSeq(s, 1, Len(s) - 1)

Top == frames[Len(frames)]
NextInclude == Head(Top.includes)

CyclicErrorSkipped(stack, path) == Ok(<<>>)

CyclicErrorRepeated(stack, path) ==
    Err(CyclicDependency(
        stack[CHOOSE i \in 1..Len(stack) : PathEq(stack[i], path)].source,
        path.source))

\* the Err of the cyclic branch of get_text_for_path
CyclicError(stack, path) ==
    Err(CyclicDependency(Last(stack).source, path.source))

\* fs::read_to_string of a canonical path
ReadToString(files, canonical) ==
    IF ToNode(canonical) \in DOMAIN files THEN Ok(files[ToNode(canonical)])
    ELSE Err(IOError)

Init ==
    /\ fs \in FileSystems
    /\ origin \in Origins
    /\ pc = "idle"
    /\ arg = <<>>
    /\ ret = NoResult
    /\ resolution_stack = <<>>
    /\ frames = <<>>
    /\ steps = 0

\* lib.rs load_file_recursively: Loader::new().load_file_recursively(origin)
LoadFileRecursively ==
    /\ pc = "idle"
    /\ pc' = "call"
    /\ arg' = origin
    /\ steps' = steps + 1
    /\ UNCHANGED <<fs, origin, ret, resolution_stack, frames>>

\* get_text_for_path: CanonicalPath::new(path)? fails
GetTextNoPath ==
    /\ pc = "call"
    /\ ~CanonicalPathNew(arg).ok
    /\ ret' = Err(CanonicalPathNew(arg).err)
    /\ pc' = "return"
    /\ steps' = steps + 1
    /\ UNCHANGED <<fs, origin, arg, resolution_stack, frames>>

\* get_text_for_path: the path is on the resolution stack
GetTextCyclic ==
    /\ pc = "call"
    /\ CanonicalPathNew(arg).ok
    /\ Contains(resolution_stack, CanonicalPathNew(arg).path)
    /\ ret' = CyclicError(resolution_stack, CanonicalPathNew(arg).path)
    /\ pc' = "return"
    /\ steps' = steps + 1
    /\ UNCHANGED <<fs, origin, arg, resolution_stack, frames>>

\* get_text_for_path: the path is pushed, then fs::read_to_string(&path)? fails
GetTextReadFails ==
    /\ pc = "call"
    /\ CanonicalPathNew(arg).ok
    /\ LET path == CanonicalPathNew(arg).path IN
        /\ ~Contains(resolution_stack, path)
        /\ ReadToString(fs, path.canonical).kind = "err"
        /\ resolution_stack' = Append(resolution_stack, path)
        /\ ret' = ReadToString(fs, path.canonical)
    /\ pc' = "return"
    /\ steps' = steps + 1
    /\ UNCHANGED <<fs, origin, arg, frames>>

\* get_text_for_path: the path is pushed, the file read and its includes found
GetTextRead ==
    /\ pc = "call"
    /\ CanonicalPathNew(arg).ok
    /\ LET path == CanonicalPathNew(arg).path IN
        /\ ~Contains(resolution_stack, path)
        /\ ReadToString(fs, path.canonical).kind = "ok"
        /\ resolution_stack' = Append(resolution_stack, path)
        /\ LET content == ReadToString(fs, path.canonical).text IN
            frames' = Append(frames,
                [path |-> path,
                 raw |-> content,
                 content |-> content,
                 includes |-> FindIncludes(path.canonical, content),
                 produced |-> <<>>])
    /\ pc' = "loop"
    /\ steps' = steps + 1
    /\ UNCHANGED <<fs, origin, arg, ret>>

\* the loop body for an escaped include: replace without calling the producer
LoopEscaped ==
    /\ pc = "loop"
    /\ Top.includes # <<>>
    /\ IsEscaped(NextInclude)
    /\ frames' = [frames EXCEPT ![Len(frames)] =
            [@ EXCEPT !.content = ReplaceEscaped(NextInclude, @),
                      !.includes = Tail(@),
                      !.produced = Append(@, None)]]
    /\ steps' = steps + 1
    /\ UNCHANGED <<fs, origin, pc, arg, ret, resolution_stack>>

\* the loop body for an active include: the producer calls get_text_for_path
LoopCallProducer ==
    /\ pc = "loop"
    /\ Top.includes # <<>>
    /\ ~IsEscaped(NextInclude)
    /\ arg' = NextInclude.path
    /\ pc' = "call"
    /\ steps' = steps + 1
    /\ UNCHANGED <<fs, origin, ret, resolution_stack, frames>>

ProducerOkRescans ==
    /\ pc = "return"
    /\ frames # <<>>
    /\ ret.kind = "ok"
    /\ frames' = [frames EXCEPT ![Len(frames)] =
            [@ EXCEPT !.content = ReplaceActive(NextInclude, @, ret.text),
                      !.includes = FindIncludes(Top.path.canonical,
                            ReplaceActive(NextInclude, Top.content, ret.text)),
                      !.produced = Append(@, Some(ret.text))]]
    /\ ret' = NoResult
    /\ pc' = "loop"
    /\ steps' = steps + 1
    /\ UNCHANGED <<fs, origin, arg, resolution_stack>>

\* the producer returned Ok: the rest of Include::replace
ProducerOk ==
    /\ pc = "return"
    /\ frames # <<>>
    /\ ret.kind = "ok"
    /\ frames' = [frames EXCEPT ![Len(frames)] =
            [@ EXCEPT !.content = ReplaceActive(NextInclude, @, ret.text),
                      !.includes = Tail(@),
                      !.produced = Append(@, Some(ret.text))]]
    /\ ret' = NoResult
    /\ pc' = "loop"
    /\ steps' = steps + 1
    /\ UNCHANGED <<fs, origin, arg, resolution_stack>>

ProducerErrIgnored ==
    /\ pc = "return"
    /\ frames # <<>>
    /\ ret.kind = "err"
    /\ frames' = [frames EXCEPT ![Len(frames)] =
            [@ EXCEPT !.includes = Tail(@), !.produced = Append(@, None)]]
    /\ ret' = NoResult
    /\ pc' = "loop"
    /\ steps' = steps + 1
    /\ UNCHANGED <<fs, origin, arg, resolution_stack>>

\* the producer returned Err: both ? operators return it from the caller
ProducerErr ==
    /\ pc = "return"
    /\ frames # <<>>
    /\ ret.kind = "err"
    /\ frames' = Pop(frames)
    /\ steps' = steps + 1
    /\ UNCHANGED <<fs, origin, pc, arg, ret, resolution_stack>>

GetTextOkNoPop ==
    /\ pc = "loop"
    /\ Top.includes = <<>>
    /\ ret' = Ok(Top.content)
    /\ frames' = Pop(frames)
    /\ pc' = "return"
    /\ steps' = steps + 1
    /\ UNCHANGED <<fs, origin, arg, resolution_stack>>

GetTextOkTrimmed ==
    /\ pc = "loop"
    /\ Top.includes = <<>>
    /\ resolution_stack' = Pop(resolution_stack)
    /\ ret' = Ok(SubSeq(Top.content, 1, EndIndex(Top.content)))
    /\ frames' = Pop(frames)
    /\ pc' = "return"
    /\ steps' = steps + 1
    /\ UNCHANGED <<fs, origin, arg>>

\* the loop is over: pop the resolution stack and return Ok(content)
GetTextOk ==
    /\ pc = "loop"
    /\ Top.includes = <<>>
    /\ resolution_stack' = Pop(resolution_stack)
    /\ ret' = Ok(Top.content)
    /\ frames' = Pop(frames)
    /\ pc' = "return"
    /\ steps' = steps + 1
    /\ UNCHANGED <<fs, origin, arg>>

\* the outermost get_text_for_path returned to load_file_recursively
Finish ==
    /\ pc = "return"
    /\ frames = <<>>
    /\ pc' = "done"
    /\ steps' = steps + 1
    /\ UNCHANGED <<fs, origin, arg, ret, resolution_stack, frames>>

Next ==
    \/ LoadFileRecursively
    \/ GetTextNoPath
    \/ GetTextCyclic
    \/ GetTextReadFails
    \/ GetTextRead
    \/ LoopEscaped
    \/ LoopCallProducer
    \/ ProducerOk
    \/ ProducerErr
    \/ GetTextOk
    \/ Finish

Spec == Init /\ [][Next]_vars

----------------------------------------------------------------------------
(* The inclusion graph of a file system, read off the files' texts *)

\* the includes of a regular file, rightmost first
IncludesOf(n) == FindIncludes(ToPath(n), fs[n])

\* what the active directives of a node resolve to
TargetsOf(n) ==
    IF n \notin Files THEN {}
    ELSE { Canonicalize(IncludesOf(n)[i].path) :
             i \in { j \in 1..Len(IncludesOf(n)) : ~IsEscaped(IncludesOf(n)[j]) } }

Successors(n) == { r.node : r \in { t \in TargetsOf(n) : t.ok } }

RECURSIVE Closure(_, _)
Closure(S, k) ==
    IF k = 0 THEN S
    ELSE Closure(S \cup UNION { Successors(x) : x \in S }, k - 1)

\* the nodes a node includes through a chain of one or more active directives
Reachable(n) == Closure(Successors(n), Cardinality(Files \cup Dirs))

\* n includes some B and B includes n (B may be n itself)
OnCycle(n) == n \in Reachable(n)

\* every active directive met from n names an existing regular file
AllTargetsAreFiles(n) ==
    \A x \in {n} \cup Reachable(n) :
        \A t \in TargetsOf(x) : t.ok /\ t.node \in Files

OriginNode == Canonicalize(origin).node

Done == pc = "done"

----------------------------------------------------------------------------
(* C1 *)

\* C1 as stated: whenever the root file is on an inclusion cycle of active
\* directives, load_file_recursively fails with CyclicDependency.
C1_CycleLawAsStated ==
    (Done /\ Canonicalize(origin).ok /\ OnCycle(OriginNode))
        => (ret.kind = "err" /\ ret.err.kind = "CyclicDependency")

\* C1 amended: whenever the root file is on an inclusion cycle of active
\* directives, load_file_recursively never returns Ok; the error is
\* CyclicDependency provided every active directive reachable from the root
\* names an existing regular file (otherwise the error of a directive that
\* the right-to-left walk resolves earlier may be returned instead).
C1_CycleLaw ==
    (Done /\ Canonicalize(origin).ok /\ OnCycle(OriginNode))
        => /\ ret.kind = "err"
           /\ AllTargetsAreFiles(OriginNode) => ret.err.kind = "CyclicDependency"

\* a cycle through a second file was found and reported
C1_Witness ==
    /\ Done
    /\ Canonicalize(origin).ok
    /\ OnCycle(OriginNode)
    /\ AllTargetsAreFiles(OriginNode)
    /\ \E b \in Reachable(OriginNode) : b # OriginNode /\ OriginNode \in Reachable(b)
    /\ Len(resolution_stack) >= 2
    /\ ret.err.kind = "CyclicDependency"

----------------------------------------------------------------------------
(* C2 *)

\* the most calls of get_text_for_path one resolution can make when the stack
\* is at most Cardinality(Files) + 1 deep and a file has at most MaxDirectives
\* directives, and the most steps those calls take (each call: its entry,
\* two steps per directive, its return; plus the first and the last step)
RECURSIVE Power(_, _)
Power(b, e) == IF e = 0 THEN 1 ELSE b * Power(b, e - 1)
RECURSIVE CallLimit(_)
CallLimit(depth) ==
    IF depth = 0 THEN 1 ELSE Power(MaxDirectives, depth) + CallLimit(depth - 1)
StepLimit == 2 + CallLimit(Cardinality(Files)) * (2 + 2 * MaxDirectives)

\* some step of the program can be taken: the guards of the actions
CanStep ==
    \/ pc = "idle"
    \/ /\ pc = "call"
       /\ \/ ~CanonicalPathNew(arg).ok
          \/ /\ CanonicalPathNew(arg).ok
             /\ \/ Contains(resolution_stack, CanonicalPathNew(arg).path)
                \/ ReadToString(fs, CanonicalPathNew(arg).path.canonical).kind
                      \in {"ok", "err"}
    \/ pc = "loop" /\ frames # <<>>
    \/ pc = "return" /\ (frames = <<>> \/ ret.kind \in {"ok", "err"})

\* C2 as stated: every resolution terminates (no state before the end is
\* stuck, and the number of steps is bounded) and the resolution stack never
\* holds more entries than there are regular files.
C2_TerminatesAsStated ==
    /\ Len(resolution_stack) <= Cardinality(Files)
    /\ steps <= StepLimit
    /\ Done \/ CanStep

\* C2 amended: every resolution terminates, and the resolution stack never
\* holds more entries than there are regular files plus one (a directory
\* named by a directive is pushed before reading it fails).
C2_Terminates ==
    /\ Len(resolution_stack) <= Cardinality(Files) + 1
    /\ steps <= StepLimit
    /\ Done \/ CanStep

\* a cyclic file set was resolved to the end with every file on the stack
C2_Witness ==
    /\ Done
    /\ OnCycle(OriginNode)
    /\ Len(resolution_stack) = Cardinality(Files)

----------------------------------------------------------------------------
(* What the claims speak of *)

\* a text without its last character when that is a newline
StripOneNL(t) ==
    IF t # <<>> /\ t[Len(t)] = NL THEN SubSeq(t, 1, Len(t) - 1) ELSE t

\* Include::replace is about to splice the Ok(text) a producer returned
ProducerReturnsOk == pc = "return" /\ ret.kind = "ok" /\ frames # <<>>

\* t2 is t with the range of inc replaced by d and its backslash run halved
Spliced(inc, t, t2, d) ==
    t2 = SubSeq(t, 1, inc.backslashes.start)
            \o Repeat(BSL, RangeLen(inc.backslashes) \div 2)
            \o d
            \o SubSeq(t, inc.range.end + 1, Len(t))

\* the range of inc still holds, in the buffer t, the directive found in raw
RangeIsDirective(inc, t, raw) ==
    /\ SubSeq(t, 1, inc.range.end) = SubSeq(raw, 1, inc.range.end)
    /\ ExprAt(raw, inc.range.start + 1).ok
    /\ ExprAt(raw, inc.range.start + 1).stop = inc.range.end + 1

ContentAfter == frames'[Len(frames)].content

----------------------------------------------------------------------------
(* C3 *)

\* C3 as stated: when the content of the file an active directive names has
\* been resolved, the buffer becomes the file's text with exactly the range of
\* the directive replaced by that content, less at most one final newline.
C3_SubstitutionLawAsStated ==
    [][ProducerReturnsOk =>
        /\ RangeIsDirective(NextInclude, Top.content, Top.raw)
        /\ \E d \in {ret.text, StripOneNL(ret.text)} :
              Spliced(NextInclude, Top.content, ContentAfter, d)]_vars

\* C3 amended: the same, for an active directive to which no indentation is
\* applied (a plain include, or an include_indent with nothing captured).
C3_SubstitutionLaw ==
    [][(ProducerReturnsOk /\ Indentation(NextInclude) = None) =>
        /\ RangeIsDirective(NextInclude, Top.content, Top.raw)
        /\ \E d \in {ret.text, StripOneNL(ret.text)} :
              Spliced(NextInclude, Top.content, ContentAfter, d)]_vars

\* "h ${include("b")}!" with b = "p\nq\n" has become "h p\nq!"
C3_Witness ==
    /\ pc = "loop"
    /\ frames # <<>>
    /\ Top.raw = <<"h", SP>> \o Inc(<<"b">>) \o <<"!">>
    /\ fs[<<"b">>] = <<"p", NL, "q", NL>>
    /\ Top.content = <<"h", SP, "p", NL, "q", "!">>

----------------------------------------------------------------------------
(* C4 *)

\* the captures of a text, left to right
Captures(raw) == CapturesIter(raw, 1)

Odd(n) == n % 2 = 1

\* the backslashes that go away left of capture i when all of them are escaped
RECURSIVE RemovedBefore(_, _)
RemovedBefore(caps, i) ==
    IF i <= 1 THEN 0
    ELSE LET n == RangeLen(caps[i - 1].backslashes)
         IN  (n - n \div 2) + RemovedBefore(caps, i - 1)

\* at position start (0-based) of t: floor(n/2) backslashes, then the literal
\* directive of capture c of raw, and no backslash right before them
LiteralAt(t, start, c, raw) ==
    /\ HasPrefix(t, start + 1,
                 Repeat(BSL, RangeLen(c.backslashes) \div 2)
                    \o SubSeq(raw, c.expr.start + 1, c.expr.end))
    /\ start = 0 \/ t[start] # BSL

\* C4: a directive after an odd number n of backslashes is never expanded:
\* (a) no call is made for it; (b) once it has been processed, floor(n/2)
\* backslashes and the unchanged directive text stand where its backslash run
\* began; (c) in the finished text of its file the same holds (the position is
\* computed for directives with only escaped directives to their left).
C4_EscapingLaw ==
    /\ (pc = "call" /\ frames # <<>>) =>
           (~IsEscaped(NextInclude) /\ arg = NextInclude.path)
    /\ \A k \in 1..Len(frames) :
         LET f == frames[k]
             caps == Captures(f.raw)
             i == Len(f.includes) + 1
         IN  (i <= Len(caps) /\ Odd(RangeLen(caps[i].backslashes))) =>
                 LiteralAt(f.content, caps[i].backslashes.start, caps[i], f.raw)
    /\ (pc = "loop" /\ frames # <<>> /\ Top.includes = <<>>) =>
         LET caps == Captures(Top.raw) IN
         \A i \in 1..Len(caps) :
            (\A j \in 1..i : Odd(RangeLen(caps[j].backslashes))) =>
                LiteralAt(Top.content,
                          caps[i].backslashes.start - RemovedBefore(caps, i),
                          caps[i], Top.raw)

\* "h \\\${include("b")}!" has been resolved to "h \${include("b")}!"
C4_Witness ==
    /\ Done
    /\ origin = <<"a">>
    /\ fs[<<"a">>] = <<"h", SP, BSL, BSL, BSL>> \o Inc(<<"b">>) \o <<"!">>
    /\ ret = Ok(<<"h", SP, BSL>> \o Inc(<<"b">>) \o <<"!">>)

----------------------------------------------------------------------------
(* C5 *)

IsHorizontal(t) == \A i \in 1..Len(t) : t[i] \in {SP, TAB}

\* what stands between the start of the line of position p (0-based) and p
OwnLinePrefix(t, p) == SubSeq(t, LastIndexOf(t, NL, p) + 1, p)

\* the indentation the directive inc should apply: the horizontal whitespace
\* before it on its own line, for include_indent only
OwnIndentation(inc, t) ==
    IF inc.indentation # None /\ IsHorizontal(OwnLinePrefix(t, inc.backslashes.start))
    THEN OwnLinePrefix(t, inc.backslashes.start)
    ELSE <<>>

\* text with ind before each of its lines but the first
Reindented(text, ind) ==
    IF ind = <<>> THEN text
    ELSE LET ls == Lines(text) IN
         JoinNL([i \in 1..Len(ls) |-> IF i = 1 THEN ls[i] ELSE ind \o ls[i]])

\* C5: the text spliced for an include_indent directive is the resolved
\* content with the horizontal whitespace of the directive's own line before
\* every line but the first; for a plain include nothing is prefixed.
C5_IndentationLaw ==
    [][ProducerReturnsOk =>
        Spliced(NextInclude, Top.content, ContentAfter,
                StripOneNL(Reindented(ret.text,
                                      OwnIndentation(NextInclude, Top.content))))]_vars

----------------------------------------------------------------------------
(* C6 *)

\* C6: the indentation captured for an include_indent directive is put before
\* every line but the first of the fully resolved content returned for the
\* file it names, in front of whatever indentation those lines already have.
C6_NestedIndentation ==
    [][(ProducerReturnsOk /\ Indentation(NextInclude) # None) =>
        LET ls == Lines(ret.text)
            ind == NextInclude.indentation[1]
        IN  Spliced(NextInclude, Top.content, ContentAfter,
                    StripOneNL(JoinNL([i \in 1..Len(ls) |->
                        IF i = 1 THEN ls[i] ELSE ind \o ls[i]])))]_vars

\* start = "h\n  ${include_indent("b")}\nt", b = "1\n\t${include("s/c")}",
\* c = "2\n2" has been resolved to "h\n  1\n  \t2\n  2\nt"
C6_Witness ==
    /\ Done
    /\ fs[<<"b">>] = <<"1", NL, TAB>> \o Inc(<<"s", SLASH, "c">>)
    /\ fs[<<"s", "c">>] = <<"2", NL, "2">>
    /\ ret = Ok(<<"h", NL, SP, SP, "1", NL, SP, SP, TAB, "2", NL, SP, SP, "2",
                  NL, "t">>)

----------------------------------------------------------------------------
(* C7 *)

\* two paths name the same file-system entry
SameEntry(p, q) ==
    /\ Canonicalize(p).ok
    /\ Canonicalize(q).ok
    /\ Canonicalize(p).node = Canonicalize(q).node

\* C7: a call of get_text_for_path with a path that resolves ends in
\* CyclicDependency exactly when some entry of the resolution stack was
\* requested under a spelling that names the same file-system entry.
C7_PathIdentity ==
    [][(pc = "call" /\ Canonicalize(arg).ok) =>
        ((ret'.kind = "err" /\ ret'.err.kind = "CyclicDependency")
            <=> \E i \in 1..Len(resolution_stack) :
                    SameEntry(resolution_stack[i].source, arg))]_vars

\* the root was requested through the symbolic link l and is requested again
\* as /s/../a
C7_Witness ==
    /\ pc = "return"
    /\ ret.kind = "err"
    /\ ret.err.kind = "CyclicDependency"
    /\ resolution_stack # <<>>
    /\ resolution_stack[1].source = <<"l">>
    /\ arg = <<SLASH, "s", SLASH, ".", ".", SLASH, "a">>

----------------------------------------------------------------------------
(* C8 *)

\* C8: the CyclicDependency error carries the source of the innermost stack
\* entry (the file being resolved) and the requested path as it was requested.
C8_CyclicPair ==
    [][(pc = "call" /\ ret'.kind = "err" /\ ret'.err.kind = "CyclicDependency") =>
        /\ frames # <<>>
        /\ Last(resolution_stack) = Top.path
        /\ arg = NextInclude.path
        /\ ret'.err = CyclicDependency(Top.path.source, arg)]_vars

\* the chain a -> s/c -> b -> a is reported as (/s/../b, /a)
C8_Witness ==
    /\ pc = "return"
    /\ Len(resolution_stack) = 3
    /\ resolution_stack[1].source = <<"a">>
    /\ ret = Err(CyclicDependency(<<SLASH, "s", SLASH, ".", ".", SLASH, "b">>,
                                  <<SLASH, "a">>))

----------------------------------------------------------------------------
(* C9 *)

\* C9: an error, once returned by any call, is what every caller returns, and
\* nothing else happens; an Ok is returned only with every directive of the
\* file processed; the final result is one Ok or one Err.
C9_ErrorPropagation ==
    [][/\ ret.kind = "err" => (ret' = ret /\ pc' \in {"return", "done"})
       /\ (ret'.kind = "ok" /\ ret.kind # "ok") =>
             (Top.includes = <<>> /\ ret'.text = Top.content)
       /\ pc' = "done" =>
             /\ frames' = <<>>
             /\ ret'.kind \in {"ok", "err"}
             /\ ret'.kind = "err" =>
                   ret'.err.kind \in {"FileNotFound", "CyclicDependency", "IOError"}
             /\ ret'.kind = "ok" => ret'.err = NoError]_vars

\* FileNotFound raised two calls deep is the final result
C9_Witness ==
    /\ Done
    /\ ret = Err(FileNotFound(<<SLASH, "z">>))
    /\ Len(resolution_stack) >= 2

----------------------------------------------------------------------------
(* C10 *)

\* C10: whenever a call of get_text_for_path has returned, the resolution
\* stack holds exactly the files whose calls are still in progress; it is
\* empty when load_file_recursively has returned.
C10_StackDiscipline ==
    (pc \in {"loop", "return", "done"}) =>
        /\ Len(resolution_stack) = Len(frames)
        /\ \A i \in 1..Len(frames) : resolution_stack[i] = frames[i].path

----------------------------------------------------------------------------
(* C11 *)

\* the path as written in the directive that the innermost call is processing
WrittenPath(f) == Captures(f.raw)[Len(f.includes)].path

----------------------------------------------------------------------------
(* C12 *)

\* C12: when the root file's text holds no directive, active or escaped,
\* load_file_recursively returns exactly that text, a final newline included.
C12_IdentityLaw ==
    (Done /\ Canonicalize(origin).ok /\ OriginNode \in Files
          /\ Captures(fs[OriginNode]) = <<>>)
        => ret = Ok(fs[OriginNode])

\* the root "x\n", requested through the symbolic link, came back as "x\n"
C12_Witness ==
    /\ Done
    /\ origin = <<"l">>
    /\ fs[<<"a">>] = <<"x", NL>>
    /\ ret = Ok(<<"x", NL>>)

----------------------------------------------------------------------------
(* C13 *)

\* C13: in every reachable state no two entries of the resolution stack have
\* the same canonical path.
C13_CycleFreedom ==
    \A i, j \in 1..Len(resolution_stack) :
        i # j => resolution_stack[i].canonical # resolution_stack[j].canonical

\* with three files on the stack, a file already on it is requested again
C13_Witness ==
    /\ pc = "call"
    /\ Len(resolution_stack) = 3
    /\ CanonicalPathNew(arg).ok
    /\ \E i \in 1..2 :
          resolution_stack[i].canonical = CanonicalPathNew(arg).path.canonical

----------------------------------------------------------------------------
(* C14 *)

\* what Include::replace puts in place of the expression of capture c of the
\* file of frame f, given what the producer returned (None: escaped)
ReplacementOf(f, c, p) ==
    IF p = None THEN SubSeq(f.raw, c.expr.start + 1, c.expr.end)
    ELSE LET indented == IndentText(CaptureToInclude(f.path.canonical, c), p[1])
         IN  StripOneNL(indented)

\* raw from offset pos on, with the captures i, i + 1, ... substituted all at
\* once: each backslash run halved, each expression replaced by repl[i]
RECURSIVE SubstFrom(_, _, _, _, _)
SubstFrom(raw, caps, repl, i, pos) ==
    IF i > Len(caps) THEN SubSeq(raw, pos + 1, Len(raw))
    ELSE SubSeq(raw, pos + 1, caps[i].backslashes.start)
            \o Repeat(BSL, RangeLen(caps[i].backslashes) \div 2)
            \o repl[i]
            \o SubstFrom(raw, caps, repl, i + 1, caps[i].expr.end)

\* the buffer of frame f as it must be when the captures after the first k
\* have been substituted simultaneously in the text as read
SubstitutedAfter(f, k) ==
    LET caps == Captures(f.raw)
        m == Len(caps)
        repl == [i \in 1..m |->
                    IF i <= k THEN <<>>
                    ELSE ReplacementOf(f, caps[i], f.produced[m - i + 1])]
        pos == IF k = 0 THEN 0 ELSE caps[k].expr.end
    IN  SubSeq(f.raw, 1, pos) \o SubstFrom(f.raw, caps, repl, k + 1, pos)

\* the ranges of inc delimit, in the buffer t, a maximal backslash run
\* followed at once by the directive expression found in raw
RangesDelimit(inc, t, raw) ==
    /\ RangeIsDirective(inc, t, raw)
    /\ inc.backslashes.end = inc.range.start
    /\ inc.backslashes.start <= inc.backslashes.end
    /\ \A i \in (inc.backslashes.start + 1)..inc.backslashes.end : t[i] = BSL
    /\ inc.backslashes.start = 0 \/ t[inc.backslashes.start] # BSL

\* C14: in every activation (a) the includes still to be applied are the tail
\* of those found in the text as read, (b) they stand rightmost first and do
\* not overlap, (c) the ranges of the one applied next still delimit its
\* backslash run and expression, and (d) the buffer is the text as read with
\* all the directives applied so far substituted simultaneously, so the
\* finished buffer is the simultaneous substitution of all of them.
C14_SpliceOrdering ==
    \A n \in 1..Len(frames) :
        LET f == frames[n]
            all == FindIncludes(f.path.canonical, f.raw)
            k == Len(f.includes)
        IN  /\ k <= Len(all)
            /\ f.includes = SubSeq(all, Len(all) - k + 1, Len(all))
            /\ Len(f.produced) = Len(all) - k
            /\ \A i \in 1..(k - 1) :
                  f.includes[i + 1].range.end <= f.includes[i].backslashes.start
            /\ k > 0 => RangesDelimit(f.includes[1], f.content, f.raw)
            /\ f.content = SubstitutedAfter(f, k)

\* both directives of "${include("b")} ${include("s/c")}" have been applied:
\* b = "p\nq\n" and c = "2\n2" give "p\nq 2\n2"
C14_Witness ==
    /\ pc = "loop"
    /\ frames # <<>>
    /\ Top.raw = Inc(<<"b">>) \o <<SP>> \o Inc(<<"s", SLASH, "c">>)
    /\ Top.includes = <<>>
    /\ Top.produced = <<Some(<<"2", NL, "2">>), Some(<<"p", NL, "q", NL>>)>>
    /\ Top.content = <<"p", NL, "q", SP, "2", NL, "2">>

----------------------------------------------------------------------------
(* C15 *)

\* the root is a regular file all of whose directives are escaped
RootOnlyEscaped ==
    /\ Canonicalize(origin).ok
    /\ OriginNode \in Files
    /\ LET caps == Captures(fs[OriginNode]) IN
          /\ caps # <<>>
          /\ \A i \in 1..Len(caps) : Odd(RangeLen(caps[i].backslashes))

\* C15: applying a directive that follows an odd number of backslashes makes
\* no call of get_text_for_path (no existence check, no read), pushes nothing
\* on the resolution stack and returns no error, whatever its target is; a
\* root whose directives are all escaped is resolved to Ok.
C15_EscapedNeverResolved ==
    /\ [][(pc = "loop" /\ Top.includes # <<>>
             /\ Odd(RangeLen(NextInclude.backslashes))) =>
            /\ pc' = "loop"
            /\ arg' = arg
            /\ ret' = ret
            /\ resolution_stack' = resolution_stack
            /\ Len(frames') = Len(frames)
            /\ frames'[Len(frames)].includes = Tail(Top.includes)
            /\ frames'[Len(frames)].produced = Append(Top.produced, None)]_vars
    /\ [](Done /\ RootOnlyEscaped => ret.kind = "ok")

\* a = "\${include("z")} ${include("b")}" and b = "\${include("a")}\n": the
\* escaped directives name a missing file and the root itself, and a resolves
\* to "${include("z")} ${include("a")}"
C15_Witness ==
    /\ Done
    /\ origin = <<"a">>
    /\ fs[<<"a">>] = <<BSL>> \o Inc(<<"z">>) \o <<SP>> \o Inc(<<"b">>)
    /\ fs[<<"b">>] = <<BSL>> \o Inc(<<"a">>) \o <<NL>>
    /\ ret = Ok(Inc(<<"z">>) \o <<SP>> \o Inc(<<"a">>))

----------------------------------------------------------------------------
(* C16 *)

\* Include::replace is about to apply an escaped directive
AppliesEscaped == pc = "loop" /\ frames # <<>> /\ Top.includes # <<>>
                     /\ IsEscaped(NextInclude)

\* the text that stands for the expression of the directive applied next
ExprAfter ==
    IF ProducerReturnsOk THEN StripOneNL(IndentText(NextInclude, ret.text))
    ELSE SubSeq(Top.content, NextInclude.range.start + 1, NextInclude.range.end)

\* the step applies the next directive and takes away exactly `removed` of
\* the backslashes of its run
Removes(removed) ==
    LET inc == NextInclude
        t == Top.content
    IN  /\ removed <= RangeLen(inc.backslashes)
        /\ Len(frames') = Len(frames)
        /\ ContentAfter =
              SubSeq(t, 1, inc.backslashes.start)
                 \o Repeat(BSL, RangeLen(inc.backslashes) - removed)
                 \o ExprAfter
                 \o SubSeq(t, inc.range.end + 1, Len(t))

\* C16 as stated: applying a directive, active or escaped, with a run of n
\* backslashes removes exactly floor(n/2) of them.
C16_UnescapingAsStated ==
    [][(AppliesEscaped \/ ProducerReturnsOk) =>
          Removes(RangeLen(NextInclude.backslashes) \div 2)]_vars

\* C16 amended: applying a directive, active or escaped, with a run of n
\* backslashes removes exactly n - floor(n/2) of them (half, rounded up), so
\* that floor(n/2) remain; for an active directive n is even and this is n/2.
C16_Unescaping ==
    [][(AppliesEscaped \/ ProducerReturnsOk) =>
          /\ Removes(RangeLen(NextInclude.backslashes)
                        - RangeLen(NextInclude.backslashes) \div 2)
          /\ ProducerReturnsOk => RangeLen(NextInclude.backslashes) % 2 = 0]_vars

\* the escaped directive of "h \\\${include("b")}!" has been applied: two of
\* its three backslashes are gone
C16_Witness ==
    /\ pc = "loop"
    /\ frames # <<>>
    /\ Top.raw = <<"h", SP, BSL, BSL, BSL>> \o Inc(<<"b">>) \o <<"!">>
    /\ Top.includes = <<>>
    /\ Top.content = <<"h", SP, BSL>> \o Inc(<<"b">>) \o <<"!">>

----------------------------------------------------------------------------
(* C17 *)

EndsWithNL(t) == t # <<>> /\ t[Len(t)] = NL

\* the root's own text ends with a newline that no directive covers
RootEndsWithOwnNL ==
    /\ Canonicalize(origin).ok
    /\ OriginNode \in Files
    /\ EndsWithNL(fs[OriginNode])
    /\ LET caps == Captures(fs[OriginNode]) IN
          caps # <<>> => caps[Len(caps)].expr.end < Len(fs[OriginNode])

\* C17: when the producer of an active directive has returned, at any depth,
\* the text spliced is the returned text with the indentation applied, less
\* its last character exactly when that is a newline (so of two or more final
\* newlines only the last is lost); a call returns its buffer untrimmed, and
\* the final newline of the root's own text is in the result.
C17_TrailingNewlineTrim ==
    /\ [][ProducerReturnsOk =>
            LET indented == IndentText(NextInclude, ret.text)
                dropped == IF EndsWithNL(indented) THEN 1 ELSE 0
                d == SubSeq(indented, 1, Len(indented) - dropped)
            IN  /\ Spliced(NextInclude, Top.content, ContentAfter, d)
                /\ (Len(indented) >= 2 /\ EndsWithNL(indented)
                      /\ indented[Len(indented) - 1] = NL) => EndsWithNL(d)]_vars
    /\ [][(pc = "loop" /\ Top.includes = <<>>) => ret' = Ok(Top.content)]_vars
    /\ []((Done /\ ret.kind = "ok" /\ RootEndsWithOwnNL) => EndsWithNL(ret.text))

\* a = "h\n ${include("s/c")}", c = "e ${include("../b")}\n", b = "p\n\n":
\* b gives "p\n" to c, and c ("e p\n\n") gives "e p\n" to a
C17_Witness ==
    /\ Done
    /\ origin = <<"a">>
    /\ fs[<<"a">>] = <<"h", NL, SP>> \o Inc(<<"s", SLASH, "c">>)
    /\ fs[<<"s", "c">>] = <<"e", SP>> \o Inc(<<".", ".", SLASH, "b">>) \o <<NL>>
    /\ fs[<<"b">>] = <<"p", NL, NL>>
    /\ ret = Ok(<<"h", NL, SP, "e", SP, "p", NL>>)

----------------------------------------------------------------------------
(* C18 *)

\* the text a regular file stands for, computed from the file tree alone: its
\* directives applied rightmost first, each active one with the text its
\* target stands for (meaningful when no directive met on the way fails)
RECURSIVE ExpandedText(_, _)
RECURSIVE ApplyAll(_, _, _)
ApplyAll(incs, content, fuel) ==
    IF incs = <<>> THEN content
    ELSE LET inc == Head(incs)
             next == IF IsEscaped(inc) THEN ReplaceEscaped(inc, content)
                     ELSE ReplaceActive(inc, content,
                            ExpandedText(Canonicalize(inc.path).node, fuel - 1))
         IN  ApplyAll(Tail(incs), next, fuel)
ExpandedText(n, fuel) ==
    IF fuel = 0 \/ n \notin Files THEN <<>>
    ELSE ApplyAll(FindIncludes(ToPath(n), fs[n]), fs[n], fuel)

\* some call of get_text_for_path for the file p names is still in progress
InProgress(p) ==
    \E i \in 1..Len(frames) :
        frames[i].path.canonical = ToPath(Canonicalize(p).node)

\* C18: a call for an existing path returns CyclicDependency exactly when a
\* call for the same file is still in progress; a call for a regular file
\* with no call in progress reads the file again (a new activation starting
\* from the file's text), however often the file was resolved before; and
\* every Ok a call returns carries the text that the file stands for, which
\* depends on the file tree only, so each resolution of a file yields the
\* same text.
C18_NoFalseCycles ==
    /\ [][(pc = "call" /\ Canonicalize(arg).ok) =>
            /\ (ret'.kind = "err" /\ ret'.err.kind = "CyclicDependency")
                  <=> InProgress(arg)
            /\ (Canonicalize(arg).node \in Files /\ ~InProgress(arg)) =>
                  /\ pc' = "loop"
                  /\ Len(frames') = Len(frames) + 1
                  /\ frames'[Len(frames')].raw = fs[Canonicalize(arg).node]
                  /\ frames'[Len(frames')].content = fs[Canonicalize(arg).node]
                  /\ frames'[Len(frames')].produced = <<>>]_vars
    /\ [][(pc = "loop" /\ Top.includes = <<>>) =>
            ret' = Ok(ExpandedText(ToNode(Top.path.canonical),
                                   Cardinality(Files) + 1))]_vars

\* a diamond: a = "${include("b")} ${include("s/c")}" and
\* c = "e ${include("../b")}\n" both include b = "w"; a resolves to "w e w"
C18_Witness ==
    /\ Done
    /\ origin = <<"a">>
    /\ fs[<<"a">>] = Inc(<<"b">>) \o <<SP>> \o Inc(<<"s", SLASH, "c">>)
    /\ fs[<<"s", "c">>] = <<"e", SP>> \o Inc(<<".", ".", SLASH, "b">>) \o <<NL>>
    /\ fs[<<"b">>] = <<"w">>
    /\ ret = Ok(<<"w", SP, "e", SP, "w">>)

----------------------------------------------------------------------------
(* C19 *)

\* resolving the path p while the files of chain are in progress ends in an
\* error: p does not resolve, or names a file in progress, or cannot be read,
\* or some active directive of the file fails in turn
RECURSIVE Fails(_, _, _)
Fails(p, chain, fuel) ==
    LET c == Canonicalize(p) IN
    IF ~c.ok \/ c.node \in chain \/ c.node \notin Files THEN TRUE
    ELSE IF fuel = 0 THEN FALSE
    ELSE LET incs == FindIncludes(ToPath(c.node), fs[c.node]) IN
         \E i \in 1..Len(incs) :
            /\ ~IsEscaped(incs[i])
            /\ Fails(incs[i].path, chain \cup {c.node}, fuel - 1)

MaxDepth == Cardinality(Files) + 1

\* the files whose calls are in progress
Chain == { ToNode(frames[i].path.canonical) : i \in 1..Len(frames) }

\* the active directives of the root file that fail, as indices of captures
RootFailing ==
    LET caps == Captures(fs[OriginNode]) IN
    { i \in 1..Len(caps) :
        /\ ~Odd(RangeLen(caps[i].backslashes))
        /\ Fails(CaptureToInclude(ToPath(OriginNode), caps[i]).path,
                 {OriginNode}, MaxDepth) }

\* the error of the call for p made by the root file when that call fails at
\* once: p does not resolve, names the root, or names a directory
ImmediateError(p) ==
    LET cp == CanonicalPathNew(p) IN
    IF ~cp.ok THEN cp.err
    ELSE IF Canonicalize(p).node = OriginNode
    THEN CyclicDependency(origin, p)
    ELSE IF Canonicalize(p).node \notin Files THEN IOError
    ELSE NoError

\* C19: when the call made for a directive of a file has returned an error,
\* that directive is active and is the rightmost directive of the file whose
\* resolution fails, the file's call returns the same error, and from then on
\* no call is made and nothing is read or pushed; so for a root with failing
\* directives the result is the error of the rightmost of them.
C19_WhichError ==
    /\ [][(pc = "return" /\ ret.kind = "err" /\ frames # <<>>) =>
            LET f == Top
                h == Head(f.includes)
                caps == Captures(f.raw)
            IN  /\ ~IsEscaped(h)
                /\ Fails(h.path, Chain, MaxDepth)
                /\ \A i \in 1..Len(caps) :
                      caps[i].expr.start > h.range.start =>
                         \/ Odd(RangeLen(caps[i].backslashes))
                         \/ ~Fails(CaptureToInclude(f.path.canonical,
                                                    caps[i]).path,
                                   Chain, MaxDepth)
                /\ ret' = ret
                /\ frames' = Pop(frames)]_vars
    /\ [][ret.kind = "err" =>
            /\ pc' \in {"return", "done"}
            /\ arg' = arg
            /\ resolution_stack' = resolution_stack
            /\ Len(frames') <= Len(frames)]_vars
    /\ []((Done /\ Canonicalize(origin).ok /\ OriginNode \in Files
                /\ RootFailing # {}) =>
            LET r == CHOOSE i \in RootFailing : \A j \in RootFailing : j <= i
                p == CaptureToInclude(ToPath(OriginNode),
                                      Captures(fs[OriginNode])[r]).path
            IN  /\ ret.kind = "err"
                /\ ImmediateError(p) # NoError => ret = Err(ImmediateError(p)))

\* a = "${include("b")} ${include("z")}" with b = "${include("a")}": both
\* directives fail; the error is that of z, and b was never pushed
C19_Witness ==
    /\ Done
    /\ origin = <<"a">>
    /\ fs[<<"a">>] = Inc(<<"b">>) \o <<SP>> \o Inc(<<"z">>)
    /\ fs[<<"b">>] = Inc(<<"a">>)
    /\ ret = Err(FileNotFound(<<SLASH, "z">>))
    /\ Len(resolution_stack) = 1

----------------------------------------------------------------------------
(* C20 *)

\* the literal directive texts of t, each with its backslash run
Literals(t) ==
    { SubSeq(t, Captures(t)[i].backslashes.start + 1, Captures(t)[i].expr.end) :
        i \in 1..Len(Captures(t)) }

Occurs(l, t) == \E i \in 1..Len(t) : HasPrefix(t, i, l)

\* C20: (a) when the producer returns a text that itself holds directive
\* text, that text is spliced as it is and the list of pending includes only
\* loses its head: nothing found in the spliced text is added; (b) every call
\* a file makes is for a directive found in its own text as read; (c) every
\* literal directive a producer returned, backslashes included, stands in the
\* buffer of the including file, and so in its output and in the output of
\* the files that include it.
C20_NoRescan ==
    /\ [][(ProducerReturnsOk /\ Captures(ret.text) # <<>>) =>
            /\ Spliced(NextInclude, Top.content, ContentAfter,
                       StripOneNL(IndentText(NextInclude, ret.text)))
            /\ Len(frames') = Len(frames)
            /\ frames'[Len(frames)].includes = Tail(Top.includes)
            /\ pc' = "loop"]_vars
    /\ []((pc = "call" /\ frames # <<>>) =>
            arg = CaptureToInclude(Top.path.canonical,
                                   Captures(Top.raw)[Len(Top.includes)]).path)
    /\ [](\A n \in 1..Len(frames) : \A j \in 1..Len(frames[n].produced) :
            frames[n].produced[j] # None =>
                \A l \in Literals(frames[n].produced[j][1]) :
                    Occurs(l, frames[n].content))
    /\ []((pc = "return" /\ ret.kind = "ok" /\ frames # <<>>) =>
            \A l \in Literals(ret.text) :
                Occurs(l, ReplaceActive(NextInclude, Top.content, ret.text)))

\* a = "h\n ${include("s/c")}", c = "e ${include("../b")}\n" and
\* b = "\${include("a")}\n": the literal left by b reaches a's output
\* two levels up, and is not taken for an inclusion of a
C20_Witness ==
    /\ Done
    /\ origin = <<"a">>
    /\ fs[<<"a">>] = <<"h", NL, SP>> \o Inc(<<"s", SLASH, "c">>)
    /\ fs[<<"s", "c">>] = <<"e", SP>> \o Inc(<<".", ".", SLASH, "b">>) \o <<NL>>
    /\ fs[<<"b">>] = <<BSL>> \o Inc(<<"a">>) \o <<NL>>
    /\ ret = Ok(<<"h", NL, SP, "e", SP>> \o Inc(<<"a">>))

====
